---------------------------- MODULE Spec2Model ----------------------------
(***************************************************************************)
(* A model of the racing-game engine of src/game.py: the Environment that  *)
(* turns an RGB image into a track (boundaries, finish, start, distance    *)
(* matrix), its ray tracing, and the Engine's sense-plan-act-resolve loop. *)
(*                                                                         *)
(* Arithmetic.  The source computes with IEEE doubles.  The model computes *)
(* with exact fixed-point integers: speeds are counted in 1/SpeedScale     *)
(* pixels per tick, positions in 1/PosScale pixels, angles in whole        *)
(* degrees, and sines in 1/TrigScale.  Arrays follow numpy's indexing: an  *)
(* index i of an axis of length n is valid iff -n <= i < n, a negative     *)
(* index counts from the end, any other index raises IndexError.           *)
(***************************************************************************)
EXTENDS Integers, Sequences, FiniteSets, TLC

VARIABLES
    image,            \* np.asarray(rgb_img): image[y][x] = <<r, g, b>>
    boundaries,       \* Environment.boundaries[<<x, y>>]
    finish,           \* Environment.finish, sequence of <<x, y>>
    start,            \* Environment.start
    distance_matrix,  \* the distance matrix being filled, then Environment.distance_matrix
    points,           \* argument `points` of the pending _recursive_distance call
    distance,         \* argument `distance` of the pending _recursive_distance call
    pc,               \* position of the program
    fault,            \* the uncaught exception that ended the program, or "none"
    game_status,      \* Engine.game_status
    turn,             \* number of Engine._turn calls started
    cur,              \* index in Engine.players of the player the loop of _turn is at
    position,         \* player.position, <<x, y>> in 1/PosScale pixels
    rotation,         \* player.rotation, degrees
    speed,            \* player.speed, in 1/SpeedScale pixels per tick
    alive,            \* player.alive
    score,            \* player.score
    percept,          \* percept[p][s]: sensor.percept of sensor s of player p
    frames_advanced,  \* actual_next_frame - planned_next_frame of the last _turn
    warning,          \* the warning logged by the last _turn: <<frames_skipped>>, <<>> if none
    ray_in,           \* arguments of a stand-alone ray_trace_to_wall call
    ray_out,          \* its result
    pixel_in,         \* the coordinate of a stand-alone rounding to a pixel
    pixel_out         \* its result

envVars    == <<image, boundaries, finish, start>>
fillVars   == <<distance_matrix, points, distance>>
playerVars == <<position, rotation, speed, alive, score, percept>>
engineVars == <<game_status, turn, cur, frames_advanced, warning>>
rayVars    == <<ray_in, ray_out>>
pixelVars  == <<pixel_in, pixel_out>>
callVars   == <<rayVars, pixelVars>>
vars       == <<envVars, fillVars, playerVars, engineVars, callVars, pc, fault>>

-----------------------------------------------------------------------------
(* Bounds of the model *)

FillWidth  == 3    \* width of the images of SpecFill
FillHeight == 3    \* height of the images of SpecFill
MaxMarks   == 2    \* number of non-black pixels in an image of SpecFill
MaxTicks   == 4    \* number of ticks play() is followed for
MaxSkip    == 2    \* frames the wall clock can advance during one tick
MaxRay     == 3    \* length in pixels of the rays of SpecRay
MaxCoordinate == 2   \* the coordinates of SpecPixel go from -MaxCoordinate to MaxCoordinate
DeepLayers == 1000   \* number of layers the fill of the deep track needs
LongCorridor  == 29  \* pixels from the start to the finish of the long corridor
CorridorTicks == 27  \* number of ticks play() is followed for in a corridor

-----------------------------------------------------------------------------
(* Values *)

None == "None"
NoFault == "none"
IndexError == "IndexError"
RecursionError == "RecursionError"

\* what ray_trace_to_wall gives: an index, None, or an exception raised
Hit(i) == <<"hit", i>>
NoHit  == <<None, 0>>
Raised(exception) == <<exception, 0>>

RUNNING  == 0
FINISHED == 1
UNSET    == FINISHED + 1     \* stands for game_status before Engine.__init__ sets it

Min(a, b) == IF a < b THEN a ELSE b
Max(a, b) == IF a > b THEN a ELSE b
Abs(a)    == IF a < 0 THEN -a ELSE a

MinOf(S) == CHOOSE m \in S : \A n \in S : m <= n

-----------------------------------------------------------------------------
(* Images *)

Black   == <<0, 0, 0>>
Red     == <<255, 0, 0>>        \* wall
Green   == <<0, 255, 0>>        \* start
Blue    == <<0, 0, 255>>        \* finish
DimBlue == <<0, 0, 64>>         \* blue channel set, but below 128
Magenta == <<255, 0, 255>>      \* wall and finish
Yellow  == <<255, 255, 0>>      \* wall and start

\* the colours of the marked pixels of a sparse image
Marks == {Red, Green, Blue, Magenta}

\* an image given by its rows, top row first, as np.asarray sees it
FromRows(rows) ==
    [y \in 0..(Len(rows) - 1) |-> [x \in 0..(Len(rows[1]) - 1) |-> rows[y + 1][x + 1]]]

\* the image of w x h pixels that is black but for the pixels of S, painted by f
SparseImage(w, h, S, f) ==
    [y \in 0..(h - 1) |-> [x \in 0..(w - 1) |->
        IF <<x, y>> \in S THEN f[<<x, y>>] ELSE Black]]

\* the sets of at most MaxMarks pixels of an image of w x h pixels
MarkedPixels(w, h) ==
    {S \in SUBSET ((0..(w - 1)) \X (0..(h - 1))) : Cardinality(S) <= MaxMarks}

height == Cardinality(DOMAIN image)
width  == Cardinality(DOMAIN image[0])

Cells == (0..(width - 1)) \X (0..(height - 1))

-----------------------------------------------------------------------------
(* numpy indexing of a width x height array *)

\* boundaries[p] and distance_matrix[p] raise IndexError unless this holds
ValidIndex(p) == /\ -width <= p[1] /\ p[1] < width
                 /\ -height <= p[2] /\ p[2] < height

\* the cell a valid index denotes: a negative index counts from the end
CellOf(p) == <<p[1] % width, p[2] % height>>

InGrid(p) == /\ 0 <= p[1] /\ p[1] < width
             /\ 0 <= p[2] /\ p[2] < height

-----------------------------------------------------------------------------
(* Environment.parse_track *)

\* np.transpose(raw_data, (1, 0, 2))
transposed_data == [c \in Cells |-> image[c[2]][c[1]]]

red_channel   == [c \in Cells |-> transposed_data[c][1]]
green_channel == [c \in Cells |-> transposed_data[c][2]]
blue_channel  == [c \in Cells |-> transposed_data[c][3]]

\* the order of np.nonzero on a 2-d array: by first index, then by second
RowMajorLess(p, q) == p[1] < q[1] \/ (p[1] = q[1] /\ p[2] < q[2])

RECURSIVE SortedSeq(_)
SortedSeq(S) ==
    IF S = {} THEN <<>>
    ELSE LET m == CHOOSE p \in S : \A q \in S \ {p} : RowMajorLess(p, q)
         IN  <<m>> \o SortedSeq(S \ {m})

\* np.transpose(np.nonzero(channel))
NonZero(channel) == SortedSeq({c \in Cells : channel[c] # 0})

Range(s) == {s[i] : i \in DOMAIN s}

\* parse_track: np.nonzero(green_channel)[0] raises IndexError on an image
\* with no green
ParseTrack ==
    /\ pc = "parse_track"
    /\ IF NonZero(green_channel) = <<>>
       THEN /\ pc' = "crashed"
            /\ fault' = IndexError
            /\ UNCHANGED <<boundaries, finish, start>>
       ELSE /\ boundaries' = [c \in Cells |-> red_channel[c] >= 128]
            /\ finish' = NonZero(blue_channel)
            /\ start' = NonZero(green_channel)[1]
            /\ pc' = "get_distance_matrix"
            /\ UNCHANGED fault
    /\ UNCHANGED <<image, fillVars, playerVars, engineVars, callVars>>

-----------------------------------------------------------------------------
(* Environment.get_distance_matrix and _recursive_distance *)

\* the four positions one diagonal step from a point
OneFurther(point) == {<<point[1] + dx, point[2] + dy>> : dx \in {-1, 1}, dy \in {-1, 1}}

\* distance_matrix[point] = distance, for every point of points
SetDistances(dm, pts, d) ==
    [c \in Cells |-> IF \E p \in pts : CellOf(p) = c THEN d ELSE dm[c]]

\* the try block of _recursive_distance: the lookups of a position that is not
\* a valid index raise IndexError, which is passed over
Admissible(dm, one_further) ==
    /\ ValidIndex(one_further)
    /\ ~boundaries[CellOf(one_further)]
    /\ dm[CellOf(one_further)] = 0

ValidNextPoints(dm, pts) ==
    {n \in UNION {OneFurther(p) : p \in pts} : Admissible(dm, n)}

\* get_distance_matrix as it would be with the first call made with distance 0
GetDistanceMatrixSeedZero ==
    /\ pc = "get_distance_matrix"
    /\ distance_matrix' = [c \in Cells |-> 0]
    /\ points' = Range(finish)
    /\ distance' = 0
    /\ pc' = "recursive_distance"
    /\ UNCHANGED <<envVars, playerVars, engineVars, callVars, fault>>

\* get_distance_matrix: the first call, on the finish points, with distance 1
GetDistanceMatrix ==
    /\ pc = "get_distance_matrix"
    /\ distance_matrix' = [c \in Cells |-> 0]
    /\ points' = Range(finish)
    /\ distance' = 1
    /\ pc' = "recursive_distance"
    /\ UNCHANGED <<envVars, playerVars, engineVars, callVars, fault>>

\* sys.getrecursionlimit() of CPython, which the program does not change: the
\* greatest depth of the stack of Python frames.  A call that would take the
\* stack deeper raises RecursionError
RecursionLimit == 1000

\* the frames on the stack when get_distance_matrix makes the first call of
\* _recursive_distance
CallersOfFill == <<"<module>", "main", "track", "Environment.__init__", "get_distance_matrix">>

\* the depth of the stack in the call of _recursive_distance for a layer: the
\* call for each layer is made by the call for the layer before it
FrameDepth(layer) == Len(CallersOfFill) + layer

\* one call of _recursive_distance, up to its recursive call or its return
RecursiveDistance ==
    /\ pc = "recursive_distance"
    /\ IF FrameDepth(distance) > RecursionLimit
       THEN \* the call cannot be made; nothing catches the exception
            /\ pc' = "crashed"
            /\ fault' = RecursionError
            /\ UNCHANGED fillVars
       ELSE LET dm == SetDistances(distance_matrix, points, distance)
                valid_next_points == ValidNextPoints(dm, points)
            IN  /\ distance_matrix' = dm
                /\ IF valid_next_points # {}
                   THEN /\ points' = valid_next_points
                        /\ distance' = distance + 1
                        /\ pc' = "recursive_distance"
                   ELSE /\ UNCHANGED <<points, distance>>
                        /\ pc' = "engine_init"
                /\ UNCHANGED fault
    /\ UNCHANGED <<envVars, playerVars, engineVars, callVars>>

-----------------------------------------------------------------------------
(* Fixed-point arithmetic *)

ACCELERATION     == 5      \* Engine.ACCELERATION
ROTATION_SPEED   == 180    \* Engine.ROTATION_SPEED
FramesPerSecond  == 30     \* 1 / Engine.SECONDS_PER_FRAME

\* sin(3k degrees) * TrigScale, k = 0..30, rounded
SinTable == <<0, 52, 105, 156, 208, 259, 309, 358, 407, 454, 500, 545, 588, 629,
              669, 707, 743, 777, 809, 839, 866, 891, 914, 934, 951, 966, 978,
              988, 995, 999, 1000>>
TrigScale == SinTable[Len(SinTable)]

\* the speed unit makes one tick of acceleration command 1 a whole number
SpeedScale == FramesPerSecond \div ACCELERATION
PosScale   == SpeedScale * TrigScale

\* math.sin and math.cos of an angle in degrees (a multiple of 3), times TrigScale
Sin(deg) ==
    LET d == deg % 360
    IN  IF d <= 90 THEN SinTable[(d \div 3) + 1]
        ELSE IF d <= 180 THEN SinTable[((180 - d) \div 3) + 1]
        ELSE IF d <= 270 THEN -SinTable[((d - 180) \div 3) + 1]
        ELSE -SinTable[((360 - d) \div 3) + 1]
Cos(deg) == Sin(deg + 90)

\* int(round(v / scale)) as it would be were a tie rounded up
RoundHalfUp(v, scale) ==
    LET q == v \div scale
        r == v % scale
    IN  IF 2 * r < scale THEN q ELSE q + 1

\* int(round(v / scale)): Python 3 rounds a tie to the even neighbour
RoundHalfEven(v, scale) ==
    LET q == v \div scale
        r == v % scale
    IN  IF 2 * r < scale THEN q
        ELSE IF 2 * r > scale THEN q + 1
        ELSE IF q % 2 = 0 THEN q ELSE q + 1

-----------------------------------------------------------------------------
(* Environment.location_to_pixel and Environment.translate *)

location_to_pixel(coordinate) ==
    <<RoundHalfEven(coordinate[1], PosScale), RoundHalfEven(coordinate[2], PosScale)>>

\* a pixel as a continuous coordinate
PixelCoordinate(pixel) == <<pixel[1] * PosScale, pixel[2] * PosScale>>

\* translate(position, distance, rotation): dist in 1/SpeedScale pixels
translate(pos, dist, rot) ==
    <<pos[1] + Cos(rot - 90) * dist, pos[2] + Sin(rot - 90) * dist>>

\* translate(position, distance, rotation, pixel=True)
translate_pixel(pos, dist, rot) == location_to_pixel(translate(pos, dist, rot))

-----------------------------------------------------------------------------
(* bresenham.get_line *)

RECURSIVE LinePoints(_, _, _, _, _, _, _, _)
LinePoints(x, x2, y, error, dx, ady, ystep, is_steep) ==
    IF x > x2 THEN <<>>
    ELSE LET coord == IF is_steep THEN <<y, x>> ELSE <<x, y>>
             e     == error - ady
         IN  <<coord>> \o
             (IF e < 0
              THEN LinePoints(x + 1, x2, y + ystep, e + dx, dx, ady, ystep, is_steep)
              ELSE LinePoints(x + 1, x2, y, e, dx, ady, ystep, is_steep))

Reverse(s) == [i \in 1..Len(s) |-> s[Len(s) + 1 - i]]

\* the pixels of the line from origin to target, origin first
get_line(origin, target) ==
    LET is_steep == Abs(target[2] - origin[2]) > Abs(target[1] - origin[1])
        a  == IF is_steep THEN <<origin[2], origin[1]>> ELSE origin
        b  == IF is_steep THEN <<target[2], target[1]>> ELSE target
        swapped == a[1] > b[1]
        p1 == IF swapped THEN b ELSE a
        p2 == IF swapped THEN a ELSE b
        dx == p2[1] - p1[1]
        dy == p2[2] - p1[2]
        ystep == IF p1[2] < p2[2] THEN 1 ELSE -1
        pts == LinePoints(p1[1], p2[1], p1[2], dx \div 2, dx, Abs(dy), ystep, is_steep)
    IN  IF swapped THEN Reverse(pts) ELSE pts

-----------------------------------------------------------------------------
(* Environment.ray_trace_to_wall *)

\* the for loop over enumerate(line_of_sight), from the i-th pixel on:
\* boundaries[pixel] raises IndexError on a pixel that is not a valid index
RECURSIVE FirstWall(_, _)
FirstWall(line_of_sight, i) ==
    IF i > Len(line_of_sight) THEN NoHit
    ELSE IF ~ValidIndex(line_of_sight[i]) THEN Raised(IndexError)
    ELSE IF boundaries[CellOf(line_of_sight[i])] THEN Hit(i - 1)
    ELSE FirstWall(line_of_sight, i + 1)

\* ray_trace_to_wall(position, angle, distance): distance in pixels
ray_trace_to_wall(pos, angle, dist) ==
    LET origin == location_to_pixel(pos)
        target == translate_pixel(pos, dist * SpeedScale, angle)
    IN  FirstWall(get_line(origin, target), 1)

-----------------------------------------------------------------------------
(* The players and what they sense and plan *)

\* the players list of main()
Players == <<"NaiveAi", "AcceleratingAi">>
PlayerIds == 1..Len(Players)

\* the sensors of a player: relative angle in degrees, depth in pixels
Sensors == <<[relative_angle |-> 0, depth |-> 3], [relative_angle |-> 45, depth |-> 2]>>
SensorIds == 1..Len(Sensors)

\* the (acceleration_command, rotation_command) pairs plan() can return; they
\* are nominally in [-1, 1], and nothing clamps them
Commands == {<<1, 0>>, <<-1, -1>>, <<6, 15>>, <<0, -75>>}

\* the percept a sensor keeps of a ray's result
PerceptOf(ray, depth) == IF ray = NoHit THEN NoHit ELSE Hit(Min(ray[2], depth))

\* the rays of player.sense, one per sensor
SenseRays(pos, rot) ==
    [s \in SensorIds |->
        ray_trace_to_wall(pos, rot + Sensors[s].relative_angle, Sensors[s].depth)]

\* player.get_position(pixel=True)
PlayerPixel(player) == location_to_pixel(position[player])

-----------------------------------------------------------------------------
(* Engine._act *)

\* _act as it would be without max(new_speed, 0)
ActSpeedNoFloor(old_speed, acceleration_command) ==
    old_speed + (acceleration_command * ACCELERATION * SpeedScale) \div FramesPerSecond

ActSpeed(old_speed, acceleration_command) ==
    LET new_speed == old_speed
                     + (acceleration_command * ACCELERATION * SpeedScale) \div FramesPerSecond
    IN  Max(new_speed, 0)

ActRotation(old_rotation, rotation_command) ==
    LET new_rotation == old_rotation
                        + (rotation_command * ROTATION_SPEED) \div FramesPerSecond
    IN  (new_rotation + 360) % 360

\* the destination _act returns, from the speed and rotation it has just set
ActDestination(pos, new_speed, new_rotation) == translate(pos, new_speed, new_rotation)

-----------------------------------------------------------------------------
(* Engine._resolve, Environment.get_distance and check_collision *)

get_distance(pixel)    == distance_matrix[CellOf(pixel)]
check_collision(pixel) == boundaries[CellOf(pixel)]

\* _resolve as it would be were the score set to every reading
ResolveScoreNotSticky(old_score, reading) == reading

ResolveScore(old_score, reading) == IF reading > 0 THEN reading ELSE old_score

ResolveAlive(old_alive, collision, new_score) ==
    IF collision \/ new_score = 1 THEN FALSE ELSE old_alive

-----------------------------------------------------------------------------
(* Engine *)

\* Engine.__init__(track, players): every player is put on the start
EngineInit ==
    /\ pc = "engine_init"
    /\ game_status' = RUNNING
    /\ position' = [p \in PlayerIds |-> PixelCoordinate(start)]
    /\ pc' = "play"
    /\ UNCHANGED <<envVars, fillVars, rotation, speed, alive, score, percept,
                   turn, cur, frames_advanced, warning, callVars, fault>>

\* play(): the loop condition holds and _turn is entered, in a run followed for
\* max_ticks ticks.  _handle_pygame_events updates Engine.keys, which only
\* Player.sense reads; what a player makes of the keys is part of the choice of
\* its commands
TurnBeginWithin(max_ticks) ==
    /\ pc = "play"
    /\ game_status = RUNNING
    /\ turn < max_ticks
    /\ turn' = turn + 1
    /\ cur' = 1
    /\ frames_advanced' = 0
    /\ warning' = <<>>
    /\ pc' = "player_turn"
    /\ UNCHANGED <<envVars, fillVars, playerVars, game_status, callVars, fault>>

\* play() as it would be with a loop that does not test is_running()
TurnBeginAlways ==
    /\ pc = "play"
    /\ turn < MaxTicks
    /\ turn' = turn + 1
    /\ cur' = 1
    /\ frames_advanced' = 0
    /\ warning' = <<>>
    /\ pc' = "player_turn"
    /\ UNCHANGED <<envVars, fillVars, playerVars, game_status, callVars, fault>>

TurnBegin == TurnBeginWithin(MaxTicks)

\* play(): the loop condition fails and play returns
PlayReturn ==
    /\ pc = "play"
    /\ game_status # RUNNING
    /\ pc' = "done"
    /\ UNCHANGED <<envVars, fillVars, playerVars, engineVars, callVars, fault>>

\* the for loop of _turn moves on to the next player, or ends
NextPlayer ==
    IF cur < Len(Players)
    THEN cur' = cur + 1 /\ pc' = "player_turn"
    ELSE cur' = cur /\ pc' = "end_turn"

Crash(exception) == pc' = "crashed" /\ fault' = exception

\* _player_turn as it would be were a player that is not alive put back in play
DeadPlayerTurnRevives ==
    /\ NextPlayer
    /\ alive' = [alive EXCEPT ![cur] = TRUE]
    /\ UNCHANGED <<position, rotation, speed, score, percept, fault>>

\* _player_turn as it would be were sense called before player.alive is tested
DeadPlayerTurnSenses ==
    /\ NextPlayer
    /\ percept' = [percept EXCEPT ![cur] =
          [s \in SensorIds |->
              PerceptOf(SenseRays(position[cur], rotation[cur])[s], Sensors[s].depth)]]
    /\ UNCHANGED <<position, rotation, speed, alive, score, fault>>

\* _player_turn(player) on a player that is not alive: nothing is done
DeadPlayerTurn ==
    /\ NextPlayer
    /\ UNCHANGED <<playerVars, fault>>

\* _player_turn(player) for the player the loop is at, whose plan returns one
\* of commands
PlayerTurnOn(commands) ==
    /\ pc = "player_turn"
    /\ LET player == cur IN
       IF ~alive[player]
       THEN DeadPlayerTurn
       ELSE
         LET rays == SenseRays(position[player], rotation[player])
             raising == {s \in SensorIds : rays[s] = Raised(IndexError)}
         IN  IF raising # {}
             THEN \* sense raises at the first such sensor
                  /\ percept' = [percept EXCEPT ![player] =
                        [s \in SensorIds |->
                            IF s < MinOf(raising)
                            THEN PerceptOf(rays[s], Sensors[s].depth)
                            ELSE percept[player][s]]]
                  /\ Crash(IndexError)
                  /\ UNCHANGED <<position, rotation, speed, alive, score, cur>>
             ELSE
                  /\ percept' = [percept EXCEPT ![player] =
                        [s \in SensorIds |-> PerceptOf(rays[s], Sensors[s].depth)]]
                  /\ \E command \in commands :
                       LET new_speed == ActSpeed(speed[player], command[1])
                           new_rotation == ActRotation(rotation[player], command[2])
                           destination == ActDestination(position[player], new_speed, new_rotation)
                           pixel == location_to_pixel(destination)
                       IN  /\ speed' = [speed EXCEPT ![player] = new_speed]
                           /\ rotation' = [rotation EXCEPT ![player] = new_rotation]
                           /\ position' = [position EXCEPT ![player] = destination]
                           /\ IF ~ValidIndex(pixel)
                              THEN \* get_distance raises
                                   /\ Crash(IndexError)
                                   /\ UNCHANGED <<score, alive, cur>>
                              ELSE LET new_score == ResolveScore(score[player], get_distance(pixel))
                                   IN  /\ score' = [score EXCEPT ![player] = new_score]
                                       /\ alive' = [alive EXCEPT ![player] =
                                             ResolveAlive(alive[player], check_collision(pixel), new_score)]
                                       /\ NextPlayer
                                       /\ UNCHANGED fault
    /\ UNCHANGED <<envVars, fillVars, game_status, turn, frames_advanced, warning, callVars>>

PlayerTurn == PlayerTurnOn(Commands)

\* _is_game_over as it would be with the test of player.alive inverted
_is_game_over_inverted == \A p \in PlayerIds : alive[p]

_is_game_over == \A p \in PlayerIds : ~alive[p]

\* the wrapper of dropped_frame_checker as it would be were a warning logged
\* only when more than one frame has gone by
DroppedFrameWarningOverOne(planned_next_frame, actual_next_frame) ==
    IF actual_next_frame > planned_next_frame + 1
    THEN <<actual_next_frame - planned_next_frame>>
    ELSE <<>>

\* the wrapper of dropped_frame_checker, after f has returned: what it logs
DroppedFrameWarning(planned_next_frame, actual_next_frame) ==
    IF planned_next_frame # actual_next_frame
    THEN <<actual_next_frame - planned_next_frame>>
    ELSE <<>>

\* the end of _turn: _draw, the game-over check, and the dropped-frame check of
\* the decorator, frames being counted from the one _turn was entered in; then
\* play() sleeps until the next frame
TurnEnd ==
    /\ pc = "end_turn"
    /\ game_status' = IF _is_game_over THEN FINISHED ELSE game_status
    /\ \E actual_next_frame \in 0..MaxSkip :
         /\ frames_advanced' = actual_next_frame
         /\ warning' = DroppedFrameWarning(0, actual_next_frame)
    /\ pc' = "play"
    /\ UNCHANGED <<envVars, fillVars, playerVars, turn, cur, callVars, fault>>

-----------------------------------------------------------------------------
(* Specifications *)

\* what does not depend on the image, before Environment.__init__ parses it
InitRest ==
    /\ boundaries = <<>>
    /\ finish = <<>>
    /\ start = None
    /\ distance_matrix = <<>>
    /\ points = {}
    /\ distance = 0
    /\ pc = "parse_track"
    /\ fault = NoFault
    /\ game_status = UNSET
    /\ turn = 0
    /\ cur = 0
    /\ frames_advanced = 0
    /\ warning = <<>>
    /\ position = [p \in PlayerIds |-> None]
    /\ rotation = [p \in PlayerIds |-> 0]
    /\ speed = [p \in PlayerIds |-> 0]
    /\ alive = [p \in PlayerIds |-> TRUE]
    /\ score = [p \in PlayerIds |-> 0]
    /\ percept = [p \in PlayerIds |-> [s \in SensorIds |-> NoHit]]
    /\ ray_in = [position |-> <<0, 0>>, angle |-> 0, distance |-> 0]
    /\ ray_out = <<"unset", 0>>
    /\ pixel_in = <<0, 0>>
    /\ pixel_out = <<0, 0>>

\* a walled corridor, the start at its lower end and the finish at its upper end
Corridor == FromRows(<< <<Red, Red,   Red>>,
                        <<Red, Blue,  Red>>,
                        <<Red, Black, Red>>,
                        <<Red, Black, Red>>,
                        <<Red, Green, Red>>,
                        <<Red, Red,   Red>> >>)

\* a walled room, the finish in one corner and the start in the opposite one
Room == FromRows(<< <<Red, Red,   Red,   Red,   Red>>,
                    <<Red, Blue,  Black, Black, Red>>,
                    <<Red, Black, Black, Black, Red>>,
                    <<Red, Black, Black, Green, Red>>,
                    <<Red, Red,   Red,   Red,   Red>> >>)

\* a track without walls around it
Open == FromRows(<< <<Black, Black, Blue>>,
                    <<Black, Green, Black>>,
                    <<Black, Black, Black>>,
                    <<Red,   Black, DimBlue>> >>)

\* a track whose start pixel is a wall as well
WallStart == FromRows(<< <<Blue,  Black,  Black>>,
                         <<Black, Yellow, Black>>,
                         <<Black, Black,  Magenta>> >>)

Tracks == {Corridor, Room, Open, WallStart}

Init == image \in Tracks /\ InitRest

Next ==
    \/ ParseTrack
    \/ GetDistanceMatrix
    \/ RecursiveDistance
    \/ EngineInit
    \/ TurnBegin
    \/ PlayerTurn
    \/ TurnEnd
    \/ PlayReturn

Spec == Init /\ [][Next]_vars

\* a walled room without any blue
Unfinished == FromRows(<< <<Red, Red,   Red,   Red>>,
                          <<Red, Black, Black, Red>>,
                          <<Red, Black, Green, Red>>,
                          <<Red, Red,   Red,   Red>> >>)

\* the same room with a pixel whose blue channel is set, but below 128
DimFinish == FromRows(<< <<Red, Red,     Red,   Red>>,
                         <<Red, DimBlue, Black, Red>>,
                         <<Red, Black,   Green, Red>>,
                         <<Red, Red,     Red,   Red>> >>)

\* the program on the tracks that have no finish pixel
DegenerateTracks == {Unfinished, DimFinish}

InitDegenerate == image \in DegenerateTracks /\ InitRest

SpecDegenerate == InitDegenerate /\ [][Next]_vars

\* a walled corridor of n pixels from the start, at its lower end, to the
\* finish, at its upper end
CorridorOf(n) ==
    [y \in 0..(n + 2) |-> [x \in 0..2 |->
        IF x # 1 \/ y = 0 \/ y = n + 2 THEN Red
        ELSE IF y = 1 THEN Blue
        ELSE IF y = n + 1 THEN Green
        ELSE Black]]

\* the program on a short and on a long corridor, every player being given
\* full acceleration and no rotation in every tick
FullAhead == {<<1, 0>>}

InitCorridor == image \in {Corridor, CorridorOf(LongCorridor)} /\ InitRest

CorridorTurnBegin == TurnBeginWithin(CorridorTicks)

CorridorPlayerTurn == PlayerTurnOn(FullAhead)

NextCorridor ==
    \/ ParseTrack
    \/ GetDistanceMatrix
    \/ RecursiveDistance
    \/ EngineInit
    \/ CorridorTurnBegin
    \/ CorridorPlayerTurn
    \/ TurnEnd
    \/ PlayReturn

SpecCorridor == InitCorridor /\ [][NextCorridor]_vars

\* the construction of the Environment alone, on every sparse image
InitFill ==
    /\ \E S \in MarkedPixels(FillWidth, FillHeight) : \E f \in [S -> Marks] :
          image = SparseImage(FillWidth, FillHeight, S, f)
    /\ InitRest

NextFill ==
    \/ ParseTrack
    \/ GetDistanceMatrix
    \/ RecursiveDistance

SpecFill == InitFill /\ [][NextFill]_vars

\* a track two pixels wide and n pixels long, the finish and the start at its
\* upper end and a wall at its lower end: the fill goes down it one row a layer
DeepTrackOf(n) ==
    [y \in 0..n |-> [x \in 0..1 |->
        IF y = n THEN Red
        ELSE IF y = 0 THEN (IF x = 0 THEN Blue ELSE Green)
        ELSE Black]]

\* the construction of the Environment on a track whose fill needs DeepLayers
\* layers
InitDeep == image = DeepTrackOf(DeepLayers) /\ InitRest

SpecDeep == InitDeep /\ [][NextFill]_vars

\* one call of ray_trace_to_wall on a built Environment: from any half pixel of
\* the grid, at any multiple of 15 degrees, over any length up to MaxRay
HalfPixel == PosScale \div 2
RayPositions == {<<x * HalfPixel, y * HalfPixel>> :
                    x \in 0..(2 * (width - 1)), y \in 0..(2 * (height - 1))}
RayAngles == {a \in 0..359 : a % 15 = 0}

RayTrace ==
    /\ pc = "engine_init"
    /\ \E pos \in RayPositions, angle \in RayAngles, dist \in 0..MaxRay :
         /\ ray_in' = [position |-> pos, angle |-> angle, distance |-> dist]
         /\ ray_out' = ray_trace_to_wall(pos, angle, dist)
    /\ pc' = "done"
    /\ UNCHANGED <<envVars, fillVars, playerVars, engineVars, pixelVars, fault>>

NextRay ==
    \/ ParseTrack
    \/ GetDistanceMatrix
    \/ RecursiveDistance
    \/ RayTrace

SpecRay == Init /\ [][NextRay]_vars

\* one call of location_to_pixel, or of translate with pixel=True, on
\* coordinates that are multiples of a quarter of a pixel
QuarterPixel == PosScale \div 4
Coordinates == {k * QuarterPixel : k \in (-4 * MaxCoordinate)..(4 * MaxCoordinate)}

LocationToPixel ==
    /\ pc = "parse_track"
    /\ \E coordinate \in Coordinates \X Coordinates :
         /\ pixel_in' = coordinate
         /\ pixel_out' = location_to_pixel(coordinate)
    /\ pc' = "done"
    /\ UNCHANGED <<envVars, fillVars, playerVars, engineVars, rayVars, fault>>

\* translate(position, distance, rotation, pixel=True): pixel_in is the
\* coordinate before it is rounded
TranslateToPixel ==
    /\ pc = "parse_track"
    /\ \E pos \in Coordinates \X Coordinates, dist \in 0..(MaxCoordinate * SpeedScale),
          rot \in {0, 90, 180, 270} :
         /\ pixel_in' = translate(pos, dist, rot)
         /\ pixel_out' = translate_pixel(pos, dist, rot)
    /\ pc' = "done"
    /\ UNCHANGED <<envVars, fillVars, playerVars, engineVars, rayVars, fault>>

InitPixel == image = Corridor /\ InitRest

NextPixel ==
    \/ LocationToPixel
    \/ TranslateToPixel

SpecPixel == InitPixel /\ [][NextPixel]_vars

-----------------------------------------------------------------------------
(* The distance matrix *)

\* Environment.__init__ has returned: the distance matrix is complete
EnvironmentBuilt ==
    /\ pc \notin {"parse_track", "get_distance_matrix", "recursive_distance"}
    /\ distance_matrix # <<>>

\* C6: in the completed distance matrix every wall cell has distance 0, also
\* when a pixel is both wall and finish
C6_WallDistanceZero ==
    EnvironmentBuilt => \A c \in Cells : boundaries[c] => distance_matrix[c] = 0

\* C7: every finish cell has distance 1 in the completed distance matrix, and
\* in every layer of the fill after the one that seeds it
C7_FinishDistanceOne ==
    (EnvironmentBuilt \/ (pc = "recursive_distance" /\ distance > 1))
        => \A c \in Range(finish) : distance_matrix[c] = 1

\* a built track with finish cells, whose fill went on for two layers after
\* the seed
C7_Witness ==
    /\ EnvironmentBuilt
    /\ finish # <<>>
    /\ distance >= 3
    /\ \E c \in Cells : distance_matrix[c] = 3

\* the neighbours of a cell in the grid, one diagonal step away, that have a
\* positive distance
PositiveDiagonalNeighbours(c) ==
    {n \in OneFurther(c) : InGrid(n) /\ distance_matrix[n] > 0}

\* C8: in the completed distance matrix a cell outside the finish with a
\* positive distance d has d = 1 + the least distance of its in-grid diagonal
\* neighbours of positive distance
C8_DiagonalRule ==
    EnvironmentBuilt =>
        \A c \in Cells \ Range(finish) :
            distance_matrix[c] > 0 =>
                /\ PositiveDiagonalNeighbours(c) # {}
                /\ distance_matrix[c] =
                      1 + MinOf({distance_matrix[n] : n \in PositiveDiagonalNeighbours(c)})

\* C9: no position outside the grid is ever a point of a layer of the fill
C9_NoPointOutsideGrid ==
    \A p \in points : InGrid(p)

-----------------------------------------------------------------------------
(* Ray tracing *)

\* the line of sight of the ray traced last
RayLine ==
    get_line(location_to_pixel(ray_in.position),
             translate_pixel(ray_in.position, ray_in.distance * SpeedScale, ray_in.angle))

\* the indices, from 0, of the pixels of that line that are walls
RayWalls == {i \in 0..(Len(RayLine) - 1) :
                InGrid(RayLine[i + 1]) /\ boundaries[RayLine[i + 1]]}

\* C10: ray_trace_to_wall returns the least index of a wall pixel on the line
\* of sight, and None if and only if no pixel of the line is a wall
C10_FirstWallOnLine ==
    ray_out[1] # "unset" =>
        ray_out = IF RayWalls = {} THEN NoHit ELSE Hit(MinOf(RayWalls))

\* C11: a pixel of the line of sight that is outside the grid counts as no
\* wall: the ray trace never raises on it, never reports it as the wall hit,
\* and gives None when no pixel of the line inside the grid is a wall
C11_OutOfGridIsNoWall ==
    ray_out[1] # "unset" =>
        /\ ray_out # Raised(IndexError)
        /\ ray_out[1] = "hit" => InGrid(RayLine[ray_out[2] + 1])
        /\ RayWalls = {} => ray_out = NoHit

-----------------------------------------------------------------------------
(* The simulation loop *)

\* the player is on a wall pixel
OnWall(p) == ValidIndex(PlayerPixel(p)) /\ boundaries[CellOf(PlayerPixel(p))]

\* C1: at the end of every tick, if no player is alive the game is FINISHED,
\* and a player that the tick has left on a wall pixel is not alive
C1_FinishedInSameTick ==
    (pc = "play" /\ turn >= 1) =>
        /\ (\A p \in PlayerIds : ~alive[p]) => game_status = FINISHED
        /\ \A p \in PlayerIds : OnWall(p) => ~alive[p]

\* the last player alive has run into a wall in a tick later than the first,
\* and that tick has ended
C1_Witness ==
    /\ pc = "play"
    /\ turn >= 2
    /\ game_status = FINISHED
    /\ \E p \in PlayerIds : OnWall(p) /\ speed[p] > 0

\* C2: the game status goes from RUNNING to FINISHED only, and once it is
\* FINISHED it stays so and play() starts no further tick
C2_FinishedIsTerminal ==
    [][/\ game_status = UNSET => game_status' \in {UNSET, RUNNING}
       /\ game_status = RUNNING => game_status' \in {RUNNING, FINISHED}
       /\ game_status = FINISHED =>
            /\ game_status' = FINISHED
            /\ turn' = turn
            /\ pc' \in {"play", "done"}]_vars

\* play() has returned from a finished game with ticks to spare
C2_Witness ==
    /\ pc = "done"
    /\ game_status = FINISHED
    /\ turn < MaxTicks

\* C3: a player that is not alive never becomes alive again
C3_NoResurrection ==
    [][\A p \in PlayerIds : ~alive[p] => ~alive'[p]]_vars

\* a tick has taken the turn of the first player, who lives, and comes to the
\* second, who died in an earlier tick
C3_Witness ==
    /\ pc = "player_turn"
    /\ turn >= 2
    /\ cur = 2
    /\ alive[1]
    /\ ~alive[2]

\* C4: the turn of a living player, when it completes, leaves the player at the
\* destination of act, with the distance read at its pixel as score if that is
\* positive and with its old score if not, and not alive exactly if its pixel
\* is a wall or its score is 1
C4_ResolveEffect ==
    [][(pc = "player_turn" /\ alive[cur] /\ pc' # "crashed") =>
        LET p == cur
            pixel == location_to_pixel(position'[p])
            reading == distance_matrix[CellOf(pixel)]
        IN  /\ position'[p] = translate(position[p], speed'[p], rotation'[p])
            /\ score'[p] = IF reading > 0 THEN reading ELSE score[p]
            /\ alive'[p] = ~(boundaries[CellOf(pixel)] \/ score'[p] = 1)]_vars

\* a living player keeps the score of an earlier tick on a cell of distance 0
C4_Witness ==
    /\ pc = "end_turn"
    /\ \E p \in PlayerIds :
         /\ alive[p]
         /\ score[p] > 1
         /\ get_distance(PlayerPixel(p)) = 0

\* C5: speed is never negative and rotation is always in [0, 360)
C5_SpeedAndRotationRange ==
    \A p \in PlayerIds : speed[p] >= 0 /\ 0 <= rotation[p] /\ rotation[p] < 360

\* a player has braked at speed 0 and turned left from rotation 0
C5_Witness ==
    /\ turn >= 1
    /\ \E p \in PlayerIds : speed[p] = 0 /\ rotation[p] = 354

\* sense of the player the loop is at raises on none of its rays
SenseCompletes ==
    \A s \in SensorIds : SenseRays(position[cur], rotation[cur])[s] # Raised(IndexError)

\* C12: once the Environment is built no tick ends in an uncaught exception:
\* wherever act has taken a living player, also to a pixel outside the grid,
\* the reads of _resolve at that pixel complete
C12_ResolveCompletes ==
    [][(pc = "player_turn" /\ alive[cur] /\ SenseCompletes)
          => (pc' # "crashed" /\ fault' = NoFault)]_vars

\* the image has no finish pixel: no pixel with a blue channel of 128 or more
NoFinishPixel == \A c \in Cells : blue_channel[c] < 128

\* C13: on a track image without finish pixels the distance matrix is 0 at
\* every cell, and no player's score ever leaves its initial value
C13_NoFinishNoScore ==
    NoFinishPixel =>
        /\ EnvironmentBuilt => \A c \in Cells : distance_matrix[c] = 0
        /\ \A p \in PlayerIds : score[p] = 0

-----------------------------------------------------------------------------
(* The parsed track *)

\* parse_track has returned
TrackParsed == boundaries # <<>>

\* C14: the finish set parse_track produces is exactly the set of cells whose
\* blue channel is 128 or more
C14_FinishIsBlueAtLeast128 ==
    TrackParsed => Range(finish) = {c \in Cells : blue_channel[c] >= 128}

\* C15: on every image the Environment can be built from, the start is not a
\* wall
C15_StartNotWall ==
    EnvironmentBuilt => ~boundaries[start]

-----------------------------------------------------------------------------
(* The dropped-frame check *)

\* C16: the tick logs a dropped-frame warning if and only if the frame index of
\* the wall clock at its end differs from the one at its start, that is, has
\* advanced by one or more; the warning carries the difference as the number
\* of frames skipped; and the wrapper changes nothing of the players or of the
\* engine, whose status at the end of the tick is set by the game-over test
\* alone
C16_WarningIffFrameAdvanced ==
    [][(pc = "end_turn" /\ pc' = "play") =>
        /\ warning' # <<>> <=> frames_advanced' # 0
        /\ warning' # <<>> => warning' = <<frames_advanced'>>
        /\ UNCHANGED <<playerVars, envVars, fillVars, turn, cur>>
        /\ game_status' = IF \A p \in PlayerIds : ~alive[p] THEN FINISHED ELSE game_status]_vars

\* a tick during which the clock went over exactly one frame border has logged
\* a warning of one frame skipped
C16_Witness ==
    /\ pc = "play"
    /\ turn >= 1
    /\ frames_advanced = 1
    /\ warning = <<1>>

\* C16 as stated: a warning is logged if and only if the frame index has
\* advanced by more than one
C16_WarningIffAdvancedOverOne ==
    (pc = "play" /\ turn >= 1) =>
        /\ warning # <<>> <=> frames_advanced > 1
        /\ warning # <<>> => warning = <<frames_advanced>>

-----------------------------------------------------------------------------
(* The straight corridor *)

\* C17: in a straight corridor, with full acceleration and no rotation in every
\* tick, every turn of a living player moves it further along the axis of the
\* corridor, towards the finish, and not across it, and the turns go on so
\* until the player is not alive: none ends the run otherwise
C17_AdvancesUntilDead ==
    [][(pc = "player_turn" /\ alive[cur]) =>
        /\ position'[cur][1] = position[cur][1]
        /\ position'[cur][2] < position[cur][2]
        /\ pc' # "crashed"]_vars

-----------------------------------------------------------------------------
(* Rounding to a pixel *)

\* n is an integer nearest to the coordinate v, and v is half way between n and
\* another integer
Nearest(v, n) == 2 * Abs(v - n * PosScale) <= PosScale
Tie(v, n)     == 2 * Abs(v - n * PosScale) = PosScale

\* C18: location_to_pixel, and translate with pixel=True, round each
\* coordinate to the nearest integer, a tie going to the even neighbour: k + 0.5
\* and -(k + 0.5) go to k + 1 and -(k + 1) for odd k, to k and -k for even k
C18_RoundsHalfToEven ==
    \A i \in 1..2 :
        /\ Nearest(pixel_in[i], pixel_out[i])
        /\ Tie(pixel_in[i], pixel_out[i]) => pixel_out[i] % 2 = 0

\* the coordinate (-1.5, 2.5) has been rounded to the pixel (-2, 2)
C18_Witness ==
    /\ pc = "done"
    /\ pixel_in = <<-6 * QuarterPixel, 10 * QuarterPixel>>
    /\ pixel_out = <<-2, 2>>

\* C18 as stated: a tie is rounded away from zero
C18_RoundsHalfAwayFromZero ==
    \A i \in 1..2 :
        /\ Nearest(pixel_in[i], pixel_out[i])
        /\ Tie(pixel_in[i], pixel_out[i]) =>
              Abs(pixel_out[i]) * PosScale > Abs(pixel_in[i])

-----------------------------------------------------------------------------
(* The order of the turns *)

\* all that a turn can change of a player; sense sets the percepts
PlayerState(p) == <<position[p], rotation[p], speed[p], score[p], alive[p], percept[p]>>

\* C19: no step of a tick changes the position, rotation, speed, score or alive
\* flag of a player that is not alive, nor its percepts, which sense would set;
\* the tick takes the players in the order of the players list, one turn each,
\* and a turn changes nothing of any other player
C19_DeadSkippedInOrder ==
    [][/\ \A p \in PlayerIds : ~alive[p] => PlayerState(p)' = PlayerState(p)
       /\ (pc = "play" /\ pc' = "player_turn") => cur' = 1
       /\ pc = "player_turn" =>
            /\ \A p \in PlayerIds \ {cur} : PlayerState(p)' = PlayerState(p)
            /\ pc' = "player_turn" => cur' = cur + 1
            /\ pc' = "end_turn" => cur = Len(Players)]_vars

\* a tick later than the first begins with the first player not alive and the
\* second alive
C19_Witness ==
    /\ pc = "player_turn"
    /\ turn >= 2
    /\ cur = 1
    /\ ~alive[1]
    /\ alive[2]

-----------------------------------------------------------------------------
(* The termination of the fill *)

NonWallCells == {c \in Cells : ~boundaries[c]}

\* C20: the fill terminates, on every grid and finish set: every layer after
\* the seed gives its positive distance to a cell that was 0 and no wall; a
\* cell that has a positive distance keeps it; the fill goes on to a next layer
\* only with cells to admit, stops at the first layer that admits none, and
\* stops no other way; so the layers are at most one more than the cells that
\* are no wall
C20_FillTerminates ==
    [][pc = "recursive_distance" =>
        /\ distance > 1 =>
              \E p \in points :
                  /\ distance_matrix[CellOf(p)] = 0
                  /\ ~boundaries[CellOf(p)]
                  /\ distance_matrix'[CellOf(p)] = distance
        /\ \A c \in Cells : distance_matrix[c] > 0 => distance_matrix'[c] = distance_matrix[c]
        /\ pc' = "recursive_distance" =>
              /\ distance' = distance + 1
              /\ points' # {}
              /\ \A p \in points' :
                    distance_matrix'[CellOf(p)] = 0 /\ ~boundaries[CellOf(p)]
        /\ pc' # "recursive_distance" =>
              /\ pc' = "engine_init"
              /\ ValidNextPoints(distance_matrix', points) = {}
        /\ distance <= Cardinality(NonWallCells) + 1]_vars

=============================================================================
